---- MODULE Spec2Model ----
(***************************************************************************)
(* Model of dpipe.batch_iter.pipeline: the Infinite batch iterator (the    *)
(* "Epoch facade"), the stage descriptors Iterator / Threads / Loky, the   *)
(* stacker built by Infinite._make_stacker and the combine step.           *)
(*                                                                         *)
(* The engine behind wrap_pipeline (dpipe.batch_iter._pdp: Pipeline,       *)
(* Source, One2One, start_iter, start_loky) is not part of the sources at  *)
(* hand; its lifecycle, buffers and workers follow sections 4.2, 4.3 and 5 *)
(* of the specification.                                                   *)
(***************************************************************************)
EXTENDS Integers, Sequences, FiniteSets, TLC

(* ------------------------------ bounds --------------------------------- *)
\* items the source can hand out before the model stops drawing from it
MaxItems == 3
\* facade operations (call, enter, close, finalise) one behaviour may start
MaxOps == 3
\* largest batches_per_epoch / integer batch_size / n_workers / buffer_size tried
MaxEpoch == 2
MaxBatch == 2
MaxWorkers == 2
MaxBuffer == 1
\* largest multiprocessing.cpu_count() tried
MaxCpu == 2
\* the combiners on their own: longest chunk, widest tuple, longest array
MaxChunk == 2
MaxArity == 2
MaxLen == 5

(* --------------------------- construction ------------------------------ *)
\* Python values a caller may pass as batch_size: an int, a callable, or
\* something that is neither (None, a float, a string)
IntVal(n) == [t |-> "int", n |-> n, f |-> "-"]
Callable(f) == [t |-> "callable", n |-> 0, f |-> f]
Other(f) == [t |-> "other", n |-> 0, f |-> f]

Predicates == {"never", "even"}
BatchSizeArgs ==
    {IntVal(n) : n \in -1..MaxBatch} \cup {Callable(f) : f \in Predicates}
        \cup {Other("None")}

Max(a, b) == IF a >= b THEN a ELSE b

\* ComponentDescription(start_component, n_workers, buffer_size); the partial
\* start_component is kept as the starter's name and the transform it binds
ComponentDescription(start, transform, n_workers, buffer_size) ==
    [start |-> start, transform |-> transform,
     n_workers |-> n_workers, buffer_size |-> buffer_size]
NoComponent == ComponentDescription("none", "none", 0, 0)
\* a bare callable handed to Infinite, not yet wrapped by wrap_pipeline
PlainCallable == ComponentDescription("callable", "func", 0, 0)

Ok(c) == [err |-> "none", component |-> c]
Raise(e) == [err |-> e, component |-> NoComponent]

\* fault variant of IteratorInit: the buffer_size assert is missing
IteratorInit_NoBufferAssert(transform, n_workers, buffer_size) ==
    IF ~(n_workers > 0) THEN Raise("AssertionError")
    ELSE Ok(ComponentDescription("start_iter", transform, n_workers, buffer_size))

\* Iterator.__init__: the two asserts, then the descriptor
IteratorInit(transform, n_workers, buffer_size) ==
    IF ~(n_workers > 0) THEN Raise("AssertionError")
    ELSE IF ~(buffer_size > 0) THEN Raise("AssertionError")
    ELSE Ok(ComponentDescription("start_iter", transform, n_workers, buffer_size))

\* Threads.__init__: wraps func into transform_map and defers to Iterator
ThreadsInit(n_workers, buffer_size) ==
    IteratorInit("transform_map", n_workers, buffer_size)

Abs(n) == IF n < 0 THEN 0 - n ELSE n

\* fault variant of LokyWorkers: the count is not floored at 1
LokyWorkers_NoFloor(n_workers, cpus) ==
    IF n_workers < 0 THEN cpus + n_workers + 1 ELSE n_workers

\* fault variant of LokyWorkers: one is taken off instead of added
LokyWorkers_MinusOne(n_workers, cpus) ==
    IF n_workers < 0 THEN Max(1, cpus + n_workers - 1) ELSE n_workers

\* Loky.__init__: a negative n_workers counts back from cpu_count()
LokyWorkers(n_workers, cpus) ==
    IF n_workers < 0 THEN Max(1, cpus + n_workers + 1) ELSE n_workers

LokyInit(n_workers, buffer_size, cpus) ==
    LET n == LokyWorkers(n_workers, cpus) IN
    IF ~(n > 0) THEN Raise("AssertionError")
    ELSE IF ~(buffer_size > 0) THEN Raise("AssertionError")
    ELSE Ok(ComponentDescription("start_loky", "func", n, buffer_size))

\* Infinite._make_stacker, up to the definition of the generator: the
\* predicate the stacker will use, or the error raised
FixedSize(n) == [t |-> "len_lt", n |-> n, f |-> "-"]
NoPredicate == [t |-> "none", n |-> 0, f |-> "-"]
\* fault variant of MakeShouldAdd: an int is taken without the sign check
MakeShouldAdd_NoSignCheck(batch_size) ==
    IF batch_size.t = "callable" THEN [err |-> "none", should_add |-> batch_size]
    ELSE IF batch_size.t = "int" THEN
        [err |-> "none", should_add |-> FixedSize(batch_size.n)]
    ELSE [err |-> "TypeError: batch_size", should_add |-> NoPredicate]

MakeShouldAdd(batch_size) ==
    IF batch_size.t = "callable" THEN [err |-> "none", should_add |-> batch_size]
    ELSE IF batch_size.t = "int" THEN
        IF batch_size.n <= 0
        THEN [err |-> "ValueError: batch_size", should_add |-> NoPredicate]
        ELSE [err |-> "none", should_add |-> FixedSize(batch_size.n)]
    ELSE [err |-> "TypeError: batch_size", should_add |-> NoPredicate]

\* the stacker stage: Iterator(stacker) with the defaults of Iterator.__init__
StackerStage == IteratorInit("stacker", 1, 1).component
\* the combiner stage: Threads(partial(combiner, **kwargs)) with the defaults
CombinerStage == ThreadsInit(1, 1).component

\* wrap_pipeline: the source and every bare callable get the facade's
\* buffer_size, a Transform contributes its own component
Source(buffer_size) == ComponentDescription("source", "source", 1, buffer_size)
One2One(buffer_size) == ComponentDescription("one2one", "func", 1, buffer_size)
\* fault variant of Wrap: the callable's buffer is one larger than asked
Wrap_OneMore(o, buffer_size) ==
    IF o.start = "callable" THEN One2One(buffer_size + 1) ELSE o
Wrap(o, buffer_size) == IF o.start = "callable" THEN One2One(buffer_size) ELSE o
WrapPipeline(transformers, buffer_size) ==
    <<Source(buffer_size)>> \o
        [i \in 1..Len(transformers) |-> Wrap(transformers[i], buffer_size)]

(* ------------------------- items and transforms ------------------------ *)
\* the caller's source hands out (x, y) tuples, but for one item that may
\* come with a third field; the caller's transform rewrites the second field
SourceItemOf(i, odd) == IF i = odd THEN <<i, 10 * i, 0>> ELSE <<i, 10 * i>>
Func(v) == [v EXCEPT ![2] = @ + 1]
\* fault variant of transform_map: the value is passed on as it came
transform_map_NoFunc(value) == value
\* Threads.__init__, transform_map: func(value) is yielded for every value
transform_map(value) == Func(value)

\* fault variant of ShouldAdd: the fixed size is compared with <=
ShouldAdd_OffByOne(p, chunk, item) ==
    IF p.t = "len_lt" THEN Len(chunk) <= p.n
    ELSE IF p.f = "even" THEN item[1] % 2 = 0
    ELSE p.f = "always"

\* the caller's predicates for a callable batch_size, and the predicate
\* _make_stacker defines for an int
ShouldAdd(p, chunk, item) ==
    IF p.t = "len_lt" THEN Len(chunk) < p.n
    ELSE IF p.f = "even" THEN item[1] % 2 = 0
    ELSE p.f = "always"

\* what a combiner returns, or the error it raises
Returned(v) == [err |-> "none", value |-> v]
Failed(e) == [err |-> e, value |-> << >>]

\* zip_equal raises on items of different length
SameArity(inputs) == \A i, j \in 1..Len(inputs) : Len(inputs[i]) = Len(inputs[j])
MinArity(inputs) ==
    CHOOSE n \in {Len(inputs[i]) : i \in 1..Len(inputs)} :
        \A i \in 1..Len(inputs) : n <= Len(inputs[i])

\* fault variant of combine_batches: the items are taken last to first
combine_batches_Reversed(inputs) ==
    IF inputs = << >> THEN Returned(<< >>)
    ELSE IF ~SameArity(inputs) THEN Failed("ValueError: lengths")
    ELSE Returned([k \in 1..Len(inputs[1]) |->
                    [i \in 1..Len(inputs) |-> inputs[Len(inputs) + 1 - i][k]]])

\* fault variant of combine_batches: the builtin zip, which stops at the
\* shortest item
combine_batches_Zip(inputs) ==
    IF inputs = << >> THEN Returned(<< >>)
    ELSE Returned([k \in 1..MinArity(inputs) |->
                    [i \in 1..Len(inputs) |-> inputs[i][k]]])

\* combine_batches: tuple(zip_equal(*inputs)), field k of every item in
\* item order
combine_batches(inputs) ==
    IF inputs = << >> THEN Returned(<< >>)
    ELSE IF ~SameArity(inputs) THEN Failed("ValueError: lengths")
    ELSE Returned([k \in 1..Len(inputs[1]) |->
                    [i \in 1..Len(inputs) |-> inputs[i][k]]])

\* np.array over a sequence of scalars: a one-dimensional array
NpArray(xs) == [shape |-> <<Len(xs)>>, data |-> xs]

\* combine_to_arrays: each field of combine_batches as an array; the error
\* of combine_batches passes through
combine_to_arrays(inputs) ==
    LET batches == combine_batches(inputs) IN
    IF batches.err # "none" THEN batches
    ELSE Returned([k \in DOMAIN batches.value |-> NpArray(batches.value[k])])

\* padding_values as the caller writes it: one value for all fields, or a
\* list with a value per field; a value is a literal or a callable applied
\* to the array being padded (numpy.min)
PadLit(n) == [t |-> "lit", n |-> n]
PadMin == [t |-> "fn", n |-> 0]
OneValue(v) == [scalar |-> TRUE, vals |-> <<v>>]
PerField(vs) == [scalar |-> FALSE, vals |-> vs]

\* np.broadcast_to(padding_values, [n]): a scalar or a list of length 1 is
\* repeated, a list of length n is taken as it is, any other list is an error
Broadcastable(padding_values, n) ==
    padding_values.scalar \/ Len(padding_values.vals) \in {1, n}
BroadcastTo(padding_values, n) ==
    [k \in 1..n |-> IF Len(padding_values.vals) = 1 THEN padding_values.vals[1]
                    ELSE padding_values.vals[k]]

RECURSIVE SeqMax(_)
SeqMax(xs) == IF Len(xs) = 1 THEN xs[1] ELSE Max(xs[1], SeqMax(Tail(xs)))
RECURSIVE SeqMin(_)
SeqMin(xs) ==
    IF Len(xs) = 1 THEN xs[1]
    ELSE LET m == SeqMin(Tail(xs)) IN IF xs[1] <= m THEN xs[1] ELSE m

\* pad_to_shape on a one-dimensional array: ratio (in halves) of the missing
\* length goes to the left, rounded down, the rest to the right
Fill(value, x) == IF value.t = "fn" THEN SeqMin(x) ELSE value.n
PadToLength(x, length, value, ratio) ==
    LET diff == length - Len(x)
        left == (diff * ratio) \div 2
    IN  [j \in 1..length |->
            IF j > left /\ j <= left + Len(x) THEN x[j - left] ELSE Fill(value, x)]

\* pad_batch_equal: every array of the batch padded to the longest one, and
\* the batch stacked into one two-dimensional array
pad_batch_equal(batch, value, ratio) ==
    LET longest == SeqMax([i \in 1..Len(batch) |-> Len(batch[i])])
    IN  [shape |-> <<Len(batch), longest>>,
         data |-> [i \in 1..Len(batch) |->
                    PadToLength(batch[i], longest, value, ratio)]]

\* fault variant of combine_pad: every field is padded with the first value
combine_pad_FirstValue(inputs, padding_values, ratio) ==
    LET batches == combine_batches(inputs) IN
    IF batches.err # "none" THEN batches
    ELSE IF ~Broadcastable(padding_values, Len(batches.value))
    THEN Failed("ValueError: broadcast")
    ELSE Returned([k \in DOMAIN batches.value |->
            pad_batch_equal(batches.value[k], padding_values.vals[1], ratio)])

\* combine_pad: combine_batches, one padding value per field, and every
\* field padded and stacked by pad_batch_equal
combine_pad(inputs, padding_values, ratio) ==
    LET batches == combine_batches(inputs) IN
    IF batches.err # "none" THEN batches
    ELSE IF ~Broadcastable(padding_values, Len(batches.value))
    THEN Failed("ValueError: broadcast")
    ELSE LET values == BroadcastTo(padding_values, Len(batches.value)) IN
         Returned([k \in DOMAIN batches.value |->
            pad_batch_equal(batches.value[k], values[k], ratio)])

\* fault variant of InfiniteInit: batches_per_epoch is validated after the
\* pipeline has been wrapped
InfiniteInit_LateCheck(transformer, batch_size, n_batches, buffer_size) ==
    LET m == MakeShouldAdd(batch_size)
        built == WrapPipeline(<<transformer, StackerStage, CombinerStage>>,
                              buffer_size)
    IN  IF m.err # "none" THEN
            [err |-> m.err, batches_per_epoch |-> n_batches,
             should_add |-> NoPredicate, pipeline |-> << >>]
        ELSE IF n_batches <= 0 THEN
            [err |-> "ValueError: batches_per_epoch", batches_per_epoch |-> 0,
             should_add |-> m.should_add, pipeline |-> built]
        ELSE
            [err |-> "none", batches_per_epoch |-> n_batches,
             should_add |-> m.should_add, pipeline |-> built]

\* Infinite.__init__: what the constructor leaves behind, in statement order
InfiniteInit(transformer, batch_size, n_batches, buffer_size) ==
    IF n_batches <= 0 THEN
        [err |-> "ValueError: batches_per_epoch", batches_per_epoch |-> 0,
         should_add |-> NoPredicate, pipeline |-> << >>]
    ELSE LET m == MakeShouldAdd(batch_size) IN
        IF m.err # "none" THEN
            [err |-> m.err, batches_per_epoch |-> n_batches,
             should_add |-> NoPredicate, pipeline |-> << >>]
        ELSE
            [err |-> "none", batches_per_epoch |-> n_batches,
             should_add |-> m.should_add,
             pipeline |-> WrapPipeline(<<transformer, StackerStage, CombinerStage>>,
                                       buffer_size)]

VARIABLES
    cpu,          \* multiprocessing.cpu_count() of the host
    phase,        \* "new" | "staged" | "ready" | "failed": the caller's script
    stageArgs,    \* what the caller passed to Iterator/Threads/Loky
    stageErr,     \* error raised by the stage constructor
    userStage,    \* the transformer the caller passes to Infinite
    args,         \* what the caller passed to Infinite
    ctorErr,      \* error raised by Infinite.__init__
    should_add,   \* the predicate the stacker closes over
    batches_per_epoch,
    pipeline,     \* the components of self.pipeline, << >> while not built
    state,        \* Pipeline lifecycle: "None" | "Idle" | "Active" | "Closed"
    nItems,       \* items the source hands out before the model stops drawing
    finite,       \* whether the caller's source ends after nItems items
    failItem,     \* the x on which the caller's transform raises, 0 for never
    ragged,       \* the x of the source's item of another arity, 0 for none
    srcNext,      \* index of the next item the source will draw
    srcPc, srcHold,
    uPc, uHold,   \* the workers of the caller's transform stage
    stPc, chunk, stOut, stNext,   \* the stacker generator and its driver
    emitted,      \* every chunk the stacker has yielded, in order
    taken,        \* every value the stacker has received, in order
    heap,         \* the list objects the stacker has created: heap[id] is
                  \* what the list holds now
    chunkId,      \* the list object the name chunk is bound to
    emittedIds,   \* the list object of every chunk yielded, in order
    cbPc, cbHold, \* the combiner worker
    q, closed,    \* buffer i sits after stage i; closed[i]: sentinel signalled
    failure,      \* error captured from a worker, not yet re-raised
    cpc,          \* the caller: "idle" | "exiting" | "raising"
    opLog,        \* the facade operations the caller has started, in order
    epochOpen, epochLeft, epochGot,   \* the islice the caller holds
    epochLog,     \* number of batches of every finished epoch
    delivered,    \* every batch handed to the caller, in order
    errors,       \* every error raised to the caller, in order
    started,      \* number of times the workers were started
    deleted,      \* the facade was finalised
    inputs, padding_values, ratio,   \* arguments of a combiner called directly
    fields,       \* what the tuples of inputs hold: "scalars" | "arrays"
    combiner,     \* the combiner that was called, "none" before the call
    result        \* what it returned or raised

\* the combiners called on their own, outside any pipeline
combVars == <<inputs, fields, padding_values, ratio, combiner, result>>
ctorVars == <<cpu, phase, stageArgs, stageErr, userStage, args, ctorErr,
              should_add, batches_per_epoch, pipeline, combVars>>
envVars == <<nItems, finite, failItem, ragged>>
srcVars == <<srcNext, srcPc, srcHold>>
userVars == <<uPc, uHold>>
stVars == <<stPc, chunk, stOut, stNext, emitted, taken, heap, chunkId,
            emittedIds>>
cbVars == <<cbPc, cbHold>>
bufVars == <<q, closed>>
callerVars == <<cpc, opLog, epochOpen, epochLeft, epochGot, epochLog, delivered,
                errors, deleted>>
vars == <<ctorVars, state, envVars, srcVars, userVars, stVars, cbVars, bufVars,
          failure, callerVars, started>>

SourceItem(i) == SourceItemOf(i, ragged)

NStages == 4
UserWorkers == 1..MaxWorkers

NoArgs == [cls |-> "none", n_workers |-> 0, buffer_size |-> 0, cpus |-> 0]
NoInfiniteArgs == [batch_size |-> Other("unset"), batches_per_epoch |-> 0,
                   buffer_size |-> 0]

\* nothing is built, nothing runs, the caller has done nothing
AtRest ==
    /\ stageErr = "none" /\ args = NoInfiniteArgs /\ ctorErr = "none"
    /\ should_add = NoPredicate /\ batches_per_epoch = 0
    /\ pipeline = << >> /\ state = "None"
    /\ srcNext = 1 /\ srcPc = "off" /\ srcHold = << >>
    /\ uPc = [w \in UserWorkers |-> "off"]
    /\ uHold = [w \in UserWorkers |-> << >>]
    /\ stPc = "off" /\ chunk = << >> /\ stOut = << >> /\ stNext = << >>
    /\ emitted = << >> /\ taken = << >>
    /\ heap = << << >> >> /\ chunkId = 1 /\ emittedIds = << >>
    /\ cbPc = "off" /\ cbHold = << >>
    /\ q = [i \in 1..NStages |-> << >>]
    /\ closed = [i \in 1..NStages |-> FALSE]
    /\ failure = "none"
    /\ cpc = "idle" /\ opLog = << >>
    /\ epochOpen = FALSE /\ epochLeft = 0 /\ epochGot = 0
    /\ epochLog = << >> /\ delivered = << >> /\ errors = << >>
    /\ started = 0 /\ deleted = FALSE

NoResult == Failed("not called")
NoCombine ==
    /\ inputs = << >> /\ fields = "scalars"
    /\ padding_values = OneValue(PadLit(0)) /\ ratio = 1
    /\ combiner = "none" /\ result = NoResult

\* what may go wrong in a run: nothing, the caller's transform raising on
\* one item, or one item of the source having another arity
Faults == {[failItem |-> 0, ragged |-> 0], [failItem |-> 2, ragged |-> 0],
           [failItem |-> 0, ragged |-> 2]}

\* the running model: the caller hands Infinite a source and one bare
\* callable, which wrap_pipeline turns into a One2One stage
Init ==
    /\ cpu = MaxCpu
    /\ phase = "staged"
    /\ stageArgs = NoArgs
    /\ userStage = PlainCallable
    /\ nItems = MaxItems
    /\ finite \in BOOLEAN
    /\ \E f \in Faults : failItem = f.failItem /\ ragged = f.ragged
    /\ AtRest
    /\ NoCombine

\* the stage constructors on their own: every argument a caller may try
StageWorkerArgs == (0 - MaxCpu - 1)..MaxWorkers
StageBufferArgs == -1..(MaxBuffer + 1)

InitStage ==
    /\ cpu \in 1..MaxCpu
    /\ phase = "new"
    /\ stageArgs = NoArgs
    /\ userStage = NoComponent
    /\ nItems = MaxItems
    /\ finite = FALSE
    /\ failItem = 0
    /\ ragged = 0
    /\ AtRest
    /\ NoCombine

runVars == <<state, envVars, srcVars, userVars, stVars, cbVars, bufVars,
             failure, callerVars, started>>

StageBuilt(cls, n, b, r) ==
    /\ phase = "new"
    /\ stageArgs' = [cls |-> cls, n_workers |-> n, buffer_size |-> b,
                     cpus |-> cpu]
    /\ stageErr' = r.err
    /\ userStage' = r.component
    /\ phase' = IF r.err = "none" THEN "staged" ELSE "failed"
    /\ UNCHANGED <<cpu, args, ctorErr, should_add, batches_per_epoch, pipeline,
                   combVars, runVars>>

\* the host's cpu_count() is not fixed for the life of the program (CPU
\* hot-plug, a changed affinity mask): a later call may answer differently
CpuCountChanges ==
    /\ \E c \in 1..MaxCpu : c # cpu /\ cpu' = c
    /\ UNCHANGED <<phase, stageArgs, stageErr, userStage, args, ctorErr,
                   should_add, batches_per_epoch, pipeline, combVars, runVars>>

\* Iterator(transform, n_workers=n, buffer_size=b)
ConstructIterator ==
    \E n \in StageWorkerArgs, b \in StageBufferArgs :
        StageBuilt("Iterator", n, b, IteratorInit("generator", n, b))

\* Threads(func, n_workers=n, buffer_size=b)
ConstructThreads ==
    \E n \in StageWorkerArgs, b \in StageBufferArgs :
        StageBuilt("Threads", n, b, ThreadsInit(n, b))

\* Loky(func, n_workers=n, buffer_size=b)
ConstructLoky ==
    \E n \in StageWorkerArgs, b \in StageBufferArgs :
        StageBuilt("Loky", n, b, LokyInit(n, b, cpu))

NextStage ==
    ConstructIterator \/ ConstructThreads \/ ConstructLoky \/ CpuCountChanges
SpecStage == InitStage /\ [][NextStage]_vars

\* Infinite(source, userStage, batch_size=.., batches_per_epoch=.., buffer_size=..)
EpochArgs == -1..MaxEpoch
ConstructInfiniteOf(BatchSizes, Epochs, BufferSizes) ==
    /\ phase = "staged"
    /\ \E batch_size \in BatchSizes, n_batches \in Epochs,
          buffer_size \in BufferSizes :
        LET r == InfiniteInit(userStage, batch_size, n_batches, buffer_size) IN
        /\ args' = [batch_size |-> batch_size, batches_per_epoch |-> n_batches,
                    buffer_size |-> buffer_size]
        /\ ctorErr' = r.err
        /\ batches_per_epoch' = r.batches_per_epoch
        /\ should_add' = r.should_add
        /\ pipeline' = r.pipeline
        /\ state' = IF r.pipeline = << >> THEN "None" ELSE "Idle"
        /\ phase' = IF r.err = "none" THEN "ready" ELSE "failed"
    /\ UNCHANGED <<cpu, stageArgs, stageErr, userStage, combVars, envVars, srcVars,
                   userVars, stVars, cbVars, bufVars, failure, callerVars, started>>

\* the running model leaves buffer_size at its default; SpecStall and
\* SpecPool vary it
DefaultBufferSize == 1
ConstructInfinite ==
    ConstructInfiniteOf(BatchSizeArgs, EpochArgs, {DefaultBufferSize})

(* --------------------- the combiners called directly ------------------- *)
\* chunks of tuples of scalars: field 1 a digit, field 2 a letter, ...
FieldValues(k) ==
    IF k = 1 THEN {"1", "2"} ELSE IF k = 2 THEN {"a", "b"} ELSE {"x", "y"}
Tuples(a) ==
    {t \in [1..a -> UNION {FieldValues(k) : k \in 1..a}] :
        \A k \in 1..a : t[k] \in FieldValues(k)}
ScalarItems == UNION {Tuples(a) : a \in 1..MaxArity}
ScalarChunks == UNION {[1..n -> ScalarItems] : n \in 0..MaxChunk}

\* chunks of tuples of one-dimensional arrays: the odd fields of an item have
\* length len, the even ones MaxLen + 1 - len; the cells of an array differ
\* from one another and from every padding value
Arr(len) == [j \in 1..len |-> 10 * len + j]
ArrayItem(a, len) ==
    [k \in 1..a |-> Arr(IF k % 2 = 0 THEN MaxLen + 1 - len ELSE len)]
ArrayItems == {ArrayItem(a, len) : a \in 1..MaxArity, len \in 1..MaxLen}
ArrayChunks == UNION {[1..n -> ArrayItems] : n \in 0..MaxChunk}

PaddingArgs == {OneValue(PadLit(0)), OneValue(PadMin),
                PerField(<<PadLit(0), PadLit(0 - 1)>>)}
\* ratio in halves: 0.0, 0.5 (the default), 1.0
Ratios == {0, 1, 2}

InitCombine ==
    /\ cpu = MaxCpu
    /\ phase = "new"
    /\ stageArgs = NoArgs
    /\ userStage = NoComponent
    /\ nItems = MaxItems
    /\ finite = FALSE /\ failItem = 0 /\ ragged = 0
    /\ AtRest
    /\ combiner = "none" /\ result = NoResult
    /\ \/ /\ fields = "scalars"
          /\ inputs \in ScalarChunks
          /\ padding_values = OneValue(PadLit(0)) /\ ratio = 1
       \/ /\ fields = "arrays"
          /\ inputs \in ArrayChunks
          /\ padding_values \in PaddingArgs /\ ratio \in Ratios

Called(name, r) ==
    /\ combiner = "none"
    /\ combiner' = name
    /\ result' = r
    /\ UNCHANGED <<cpu, phase, stageArgs, stageErr, userStage, args, ctorErr,
                   should_add, batches_per_epoch, pipeline, inputs, fields,
                   padding_values, ratio, runVars>>

CallCombineBatches == Called("combine_batches", combine_batches(inputs))
CallCombineToArrays ==
    /\ fields = "scalars"
    /\ Called("combine_to_arrays", combine_to_arrays(inputs))
CallCombinePad ==
    /\ fields = "arrays"
    /\ Called("combine_pad", combine_pad(inputs, padding_values, ratio))

NextCombine == CallCombineBatches \/ CallCombineToArrays \/ CallCombinePad
SpecCombine == InitCombine /\ [][NextCombine]_vars

(* ----------------------- the engine: buffers, workers ------------------ *)
\* section 4.2: the buffer between two adjacent stages is sized by the
\* downstream stage's buffer_capacity; the output position of the last stage
\* is read by the caller and is sized by that stage's own capacity
Capacity(i) ==
    IF i < NStages THEN pipeline[i + 1].buffer_size ELSE pipeline[NStages].buffer_size

HasRoom(i) == Len(q[i]) < Capacity(i)
Put(i, v) == [q EXCEPT ![i] = Append(@, v)]
Take(i) == [q EXCEPT ![i] = Tail(@)]
Signal(i) == [closed EXCEPT ![i] = TRUE]

pipeline_active == state = "Active"

NUserWorkers == IF pipeline = << >> THEN 0 ELSE pipeline[2].n_workers
AllDone ==
    /\ srcPc = "done"
    /\ \A w \in UserWorkers : w <= NUserWorkers => uPc[w] = "done"
    /\ stPc = "done"
    /\ cbPc = "done"
NoWorkerAlive ==
    /\ srcPc \in {"off", "done"}
    /\ \A w \in UserWorkers : uPc[w] \in {"off", "done"}
    /\ stPc \in {"off", "done"}
    /\ cbPc \in {"off", "done"}

\* Source worker: draw the next item of the caller's iterable, or stop on
\* the shutdown signal at its output position, or signal exhaustion
SourceDraw ==
    /\ srcPc = "pull"
    /\ IF closed[1] THEN
            /\ srcPc' = "done"
            /\ UNCHANGED <<srcNext, srcHold, closed>>
       ELSE IF srcNext <= nItems THEN
            /\ srcHold' = SourceItem(srcNext)
            /\ srcNext' = srcNext + 1
            /\ srcPc' = "push"
            /\ UNCHANGED closed
       ELSE /\ finite
            /\ closed' = Signal(1)
            /\ srcPc' = "done"
            /\ UNCHANGED <<srcNext, srcHold>>
    /\ UNCHANGED <<ctorVars, state, envVars, userVars, stVars, cbVars, q,
                   failure, callerVars, started>>

SourcePush ==
    /\ srcPc = "push"
    /\ HasRoom(1)
    /\ q' = Put(1, srcHold)
    /\ srcHold' = << >>
    /\ srcPc' = "pull"
    /\ UNCHANGED <<ctorVars, state, envVars, srcNext, userVars, stVars, cbVars,
                   closed, failure, callerVars, started>>

\* a worker of the caller's stage (transform_map over the input buffer):
\* take one value and apply func; a raising func is captured and starts the
\* shutdown; an empty input with the sentinel ends the worker
Raises(v) == v[1] = failItem
UserPull(w) ==
    /\ uPc[w] = "pull"
    /\ IF q[1] # << >> THEN
            LET value == Head(q[1]) IN
            /\ q' = Take(1)
            /\ IF Raises(value) THEN
                    /\ failure' = "TransformError"
                    /\ closed' = [closed EXCEPT ![1] = TRUE, ![2] = TRUE]
                    /\ uPc' = [uPc EXCEPT ![w] = "done"]
                    /\ UNCHANGED uHold
               ELSE /\ uHold' = [uHold EXCEPT ![w] = transform_map(value)]
                    /\ uPc' = [uPc EXCEPT ![w] = "push"]
                    /\ UNCHANGED <<failure, closed>>
       ELSE /\ closed[1]
            /\ closed' = Signal(2)
            /\ uPc' = [uPc EXCEPT ![w] = "done"]
            /\ UNCHANGED <<q, uHold, failure>>
    /\ UNCHANGED <<ctorVars, state, envVars, srcVars, stVars, cbVars,
                   callerVars, started>>

UserPush(w) ==
    /\ uPc[w] = "push"
    /\ HasRoom(2)
    /\ q' = Put(2, uHold[w])
    /\ uHold' = [uHold EXCEPT ![w] = << >>]
    /\ uPc' = [uPc EXCEPT ![w] = "pull"]
    /\ UNCHANGED <<ctorVars, state, envVars, srcVars, stVars, cbVars, closed,
                   failure, callerVars, started>>

\* fault variant of StackerPull: should_add is asked for an empty chunk too
StackerPull_AlwaysAsks ==
    /\ stPc = "pull"
    /\ IF q[2] # << >> THEN
            LET value == Head(q[2]) IN
            /\ q' = Take(2)
            /\ taken' = Append(taken, value)
            /\ IF ShouldAdd(should_add, chunk, value) THEN
                    /\ chunk' = Append(chunk, value)
                    /\ heap' = [heap EXCEPT ![chunkId] = Append(@, value)]
                    /\ UNCHANGED <<stPc, stOut, stNext>>
               ELSE /\ stOut' = chunk
                    /\ stNext' = value
                    /\ stPc' = "yield"
                    /\ UNCHANGED <<chunk, heap>>
            /\ UNCHANGED closed
       ELSE /\ closed[2]
            /\ IF chunk # << >> THEN
                    /\ stOut' = chunk
                    /\ stPc' = "flush"
                    /\ UNCHANGED closed
               ELSE /\ stPc' = "done"
                    /\ closed' = Signal(3)
                    /\ UNCHANGED stOut
            /\ UNCHANGED <<q, chunk, stNext, taken, heap>>
    /\ UNCHANGED <<ctorVars, state, envVars, srcVars, userVars, cbVars,
                   emitted, chunkId, emittedIds, failure, callerVars, started>>

\* fault variant of StackerPull: at the end of the input the generator
\* returns without yielding what is left in the chunk
StackerPull_NoFlush ==
    /\ stPc = "pull"
    /\ IF q[2] # << >> THEN
            LET value == Head(q[2]) IN
            /\ q' = Take(2)
            /\ taken' = Append(taken, value)
            /\ IF chunk = << >> \/ ShouldAdd(should_add, chunk, value) THEN
                    /\ chunk' = Append(chunk, value)
                    /\ heap' = [heap EXCEPT ![chunkId] = Append(@, value)]
                    /\ UNCHANGED <<stPc, stOut, stNext>>
               ELSE /\ stOut' = chunk
                    /\ stNext' = value
                    /\ stPc' = "yield"
                    /\ UNCHANGED <<chunk, heap>>
            /\ UNCHANGED closed
       ELSE /\ closed[2]
            /\ stPc' = "done"
            /\ closed' = Signal(3)
            /\ UNCHANGED <<q, chunk, stOut, stNext, taken, heap>>
    /\ UNCHANGED <<ctorVars, state, envVars, srcVars, userVars, cbVars,
                   emitted, chunkId, emittedIds, failure, callerVars, started>>

\* the stacker generator, one input value per step: append to the chunk, or
\* yield the chunk and keep the value for the next one; at the end of the
\* input yield what is left
StackerPull ==
    /\ stPc = "pull"
    /\ IF q[2] # << >> THEN
            LET value == Head(q[2]) IN
            /\ q' = Take(2)
            /\ taken' = Append(taken, value)
            /\ IF chunk = << >> \/ ShouldAdd(should_add, chunk, value) THEN
                    /\ chunk' = Append(chunk, value)
                    /\ heap' = [heap EXCEPT ![chunkId] = Append(@, value)]
                    /\ UNCHANGED <<stPc, stOut, stNext>>
               ELSE /\ stOut' = chunk
                    /\ stNext' = value
                    /\ stPc' = "yield"
                    /\ UNCHANGED <<chunk, heap>>
            /\ UNCHANGED closed
       ELSE /\ closed[2]
            /\ IF chunk # << >> THEN
                    /\ stOut' = chunk
                    /\ stPc' = "flush"
                    /\ UNCHANGED closed
               ELSE /\ stPc' = "done"
                    /\ closed' = Signal(3)
                    /\ UNCHANGED stOut
            /\ UNCHANGED <<q, chunk, stNext, taken, heap>>
    /\ UNCHANGED <<ctorVars, state, envVars, srcVars, userVars, cbVars,
                   emitted, chunkId, emittedIds, failure, callerVars, started>>

\* fault variant of StackerPush: the generator resumes with an empty chunk,
\* losing the value that did not fit
StackerPush_DropsValue ==
    /\ stPc \in {"yield", "flush"}
    /\ HasRoom(3)
    /\ q' = Put(3, stOut)
    /\ emitted' = Append(emitted, stOut)
    /\ emittedIds' = Append(emittedIds, chunkId)
    /\ stOut' = << >>
    /\ IF stPc = "yield" THEN
            /\ chunk' = << >>
            /\ heap' = Append(heap, << >>)
            /\ chunkId' = Len(heap) + 1
            /\ stNext' = << >>
            /\ stPc' = "pull"
            /\ UNCHANGED closed
       ELSE /\ stPc' = "done"
            /\ closed' = Signal(3)
            /\ UNCHANGED <<chunk, stNext, heap, chunkId>>
    /\ UNCHANGED <<ctorVars, state, envVars, srcVars, userVars, cbVars,
                   taken, failure, callerVars, started>>

\* fault variant of StackerPush: the generator resumes by emptying the list
\* it has just yielded and putting the value into it, instead of a new list
StackerPush_ReusesChunk ==
    /\ stPc \in {"yield", "flush"}
    /\ HasRoom(3)
    /\ q' = Put(3, stOut)
    /\ emitted' = Append(emitted, stOut)
    /\ emittedIds' = Append(emittedIds, chunkId)
    /\ stOut' = << >>
    /\ IF stPc = "yield" THEN
            /\ chunk' = <<stNext>>
            /\ heap' = [heap EXCEPT ![chunkId] = <<stNext>>]
            /\ UNCHANGED chunkId
            /\ stNext' = << >>
            /\ stPc' = "pull"
            /\ UNCHANGED closed
       ELSE /\ stPc' = "done"
            /\ closed' = Signal(3)
            /\ UNCHANGED <<chunk, stNext, heap, chunkId>>
    /\ UNCHANGED <<ctorVars, state, envVars, srcVars, userVars, cbVars,
                   taken, failure, callerVars, started>>

\* the yielded chunk goes to the output buffer; the generator resumes with
\* chunk = [value], a new list, or ends after the final chunk
StackerPush ==
    /\ stPc \in {"yield", "flush"}
    /\ HasRoom(3)
    /\ q' = Put(3, stOut)
    /\ emitted' = Append(emitted, stOut)
    /\ emittedIds' = Append(emittedIds, chunkId)
    /\ stOut' = << >>
    /\ IF stPc = "yield" THEN
            /\ chunk' = <<stNext>>
            /\ heap' = Append(heap, <<stNext>>)
            /\ chunkId' = Len(heap) + 1
            /\ stNext' = << >>
            /\ stPc' = "pull"
            /\ UNCHANGED closed
       ELSE /\ stPc' = "done"
            /\ closed' = Signal(3)
            /\ UNCHANGED <<chunk, stNext, heap, chunkId>>
    /\ UNCHANGED <<ctorVars, state, envVars, srcVars, userVars, cbVars,
                   taken, failure, callerVars, started>>

\* the combiner worker: Threads(partial(combiner)) with combine_to_arrays;
\* a raising combiner is captured like any other transform
CombinerPull ==
    /\ cbPc = "pull"
    /\ IF q[3] # << >> THEN
            LET batch == combine_to_arrays(Head(q[3])) IN
            /\ q' = Take(3)
            /\ IF batch.err # "none" THEN
                    /\ failure' = "ShapeMismatch"
                    /\ closed' = [closed EXCEPT ![1] = TRUE, ![NStages] = TRUE]
                    /\ cbPc' = "done"
                    /\ UNCHANGED cbHold
               ELSE /\ cbHold' = batch.value
                    /\ cbPc' = "push"
                    /\ UNCHANGED <<closed, failure>>
       ELSE /\ closed[3]
            /\ closed' = Signal(NStages)
            /\ cbPc' = "done"
            /\ UNCHANGED <<q, cbHold, failure>>
    /\ UNCHANGED <<ctorVars, state, envVars, srcVars, userVars, stVars,
                   callerVars, started>>

CombinerPush ==
    /\ cbPc = "push"
    /\ HasRoom(4)
    /\ q' = Put(4, cbHold)
    /\ cbHold' = << >>
    /\ cbPc' = "pull"
    /\ UNCHANGED <<ctorVars, state, envVars, srcVars, userVars, stVars, closed,
                   failure, callerVars, started>>


(* --------------------- the Pipeline lifecycle (4.2) -------------------- *)
\* enter() is accepted from Idle only
EnterAllowed(st) == st = "Idle"
\* fault variant of ExitNeeded: exit() tears down whatever the state
ExitNeeded_Always(st) == TRUE
\* exit() has work to do on an Active pipeline only
ExitNeeded(st) == st = "Active"

restVars == <<ctorVars, envVars, srcNext, srcHold, uHold, chunk, stOut, stNext,
              emitted, taken, heap, chunkId, emittedIds, cbHold, failure>>

\* Idle -> Active: the buffers exist, every stage gets its workers
StartWorkers ==
    /\ state' = "Active"
    /\ srcPc' = "pull"
    /\ uPc' = [w \in UserWorkers |-> IF w <= NUserWorkers THEN "pull" ELSE "off"]
    /\ stPc' = "pull"
    /\ cbPc' = "pull"
    /\ started' = started + 1
NoStart == UNCHANGED <<state, srcPc, uPc, stPc, cbPc, started>>

(* ------------------------------ the facade ----------------------------- *)
\* fault variant of ShouldEnter: every call enters, active or not
ShouldEnter_Always(active) == TRUE
\* fault variant of ShouldEnter: the test of pipeline_active is inverted
ShouldEnter_Inverted(active) == active
\* Infinite.__call__ enters the pipeline when it is not active
ShouldEnter(active) == ~active
\* fault variant of OpenEpoch: the islice is one batch too long
OpenEpoch_OneMore ==
    /\ epochOpen' = TRUE
    /\ epochLeft' = batches_per_epoch + 1
    /\ epochGot' = 0
\* islice(self.pipeline, self.batches_per_epoch)
OpenEpoch ==
    /\ epochOpen' = TRUE
    /\ epochLeft' = batches_per_epoch
    /\ epochGot' = 0

CanOperate == phase = "ready" /\ cpc = "idle" /\ ~deleted /\ Len(opLog) < MaxOps

\* Infinite.__call__
Call ==
    /\ CanOperate
    /\ opLog' = Append(opLog, "call")
    /\ IF ShouldEnter(pipeline_active) THEN
            IF EnterAllowed(state) THEN
                /\ StartWorkers
                /\ OpenEpoch
                /\ UNCHANGED errors
            ELSE
                /\ NoStart
                /\ errors' = Append(errors, "LifecycleError")
                /\ UNCHANGED <<epochOpen, epochLeft, epochGot>>
       ELSE /\ NoStart
            /\ OpenEpoch
            /\ UNCHANGED errors
    /\ UNCHANGED <<restVars, bufVars, cpc, epochLog, delivered, deleted>>

\* Infinite.__enter__: the explicit scoped entry
Enter ==
    /\ CanOperate
    /\ opLog' = Append(opLog, "enter")
    /\ IF EnterAllowed(state) THEN
            /\ StartWorkers
            /\ UNCHANGED errors
       ELSE /\ NoStart
            /\ errors' = Append(errors, "LifecycleError")
    /\ UNCHANGED <<restVars, bufVars, cpc, epochOpen, epochLeft, epochGot,
                   epochLog, delivered, deleted>>

\* Pipeline.__exit__ begins: the sentinel goes to the Source's output
\* position and the caller waits for the workers
BeginExit ==
    IF ExitNeeded(state) THEN
        /\ closed' = Signal(1)
        /\ cpc' = "exiting"
    ELSE UNCHANGED <<closed, cpc>>

\* Infinite.close / Infinite.__exit__
Close ==
    /\ CanOperate
    /\ opLog' = Append(opLog, "close")
    /\ BeginExit
    /\ UNCHANGED <<restVars, state, srcPc, uPc, stPc, cbPc, started, q,
                   epochOpen, epochLeft, epochGot, epochLog, delivered, errors,
                   deleted>>

\* Infinite.__del__: close() on a facade that is no longer reachable; when
\* __init__ raised before self.pipeline was set the finaliser's own error is
\* discarded by the interpreter
Del ==
    /\ phase \in {"ready", "failed"} /\ args # NoInfiniteArgs
    /\ cpc = "idle" /\ ~deleted
    /\ deleted' = TRUE
    /\ opLog' = Append(opLog, "del")
    /\ IF phase = "ready" THEN BeginExit ELSE UNCHANGED <<closed, cpc>>
    /\ UNCHANGED <<restVars, state, srcPc, uPc, stPc, cbPc, started, q,
                   epochOpen, epochLeft, epochGot, epochLog, delivered, errors>>

\* Pipeline.__exit__ ends: every worker is joined, the buffers are released
Released == [i \in 1..NStages |-> << >>]
ExitJoin ==
    /\ cpc = "exiting"
    /\ AllDone
    /\ state' = "Closed"
    /\ q' = Released
    /\ cpc' = "idle"
    /\ UNCHANGED <<restVars, srcPc, uPc, stPc, cbPc, started, closed, opLog,
                   epochOpen, epochLeft, epochGot, epochLog, delivered, errors,
                   deleted>>

(* ------------------- the caller iterating one epoch -------------------- *)
\* next() on the islice: the batch at the output position; the islice ends
\* with the batch that uses up its count
PullBatch ==
    /\ cpc = "idle" /\ epochOpen
    /\ pipeline_active /\ failure = "none"
    /\ q[NStages] # << >>
    /\ delivered' = Append(delivered, Head(q[NStages]))
    /\ q' = Take(NStages)
    /\ epochGot' = epochGot + 1
    /\ epochLeft' = epochLeft - 1
    /\ IF epochLeft - 1 = 0 THEN
            /\ epochOpen' = FALSE
            /\ epochLog' = Append(epochLog, [got |-> epochGot + 1, end |-> "count"])
       ELSE UNCHANGED <<epochOpen, epochLog>>
    /\ UNCHANGED <<restVars, state, srcPc, uPc, stPc, cbPc, started, closed,
                   cpc, opLog, errors, deleted>>

\* next() on the islice when the pipeline has signalled exhaustion
PullExhausted ==
    /\ cpc = "idle" /\ epochOpen
    /\ pipeline_active /\ failure = "none"
    /\ q[NStages] = << >> /\ closed[NStages]
    /\ epochOpen' = FALSE
    /\ epochLog' = Append(epochLog, [got |-> epochGot, end |-> "exhausted"])
    /\ UNCHANGED <<restVars, state, srcPc, uPc, stPc, cbPc, started, bufVars,
                   cpc, opLog, epochLeft, epochGot, delivered, errors, deleted>>

\* next() on the islice of a pipeline that is not active
PullInactive ==
    /\ cpc = "idle" /\ epochOpen
    /\ ~pipeline_active
    /\ errors' = Append(errors, "LifecycleError")
    /\ epochOpen' = FALSE
    /\ UNCHANGED <<restVars, state, srcPc, uPc, stPc, cbPc, started, bufVars,
                   cpc, opLog, epochLeft, epochGot, epochLog, delivered, deleted>>

\* next() on the islice after a worker captured an error: the pipeline is
\* torn down first
PullFailure ==
    /\ cpc = "idle" /\ epochOpen
    /\ pipeline_active /\ failure # "none"
    /\ cpc' = "raising"
    /\ closed' = Signal(1)
    /\ UNCHANGED <<restVars, state, srcPc, uPc, stPc, cbPc, started, q, opLog,
                   epochOpen, epochLeft, epochGot, epochLog, delivered, errors,
                   deleted>>

\* fault variant of Reraise: the error is raised without the join
Reraise_BeforeJoin ==
    /\ cpc = "raising"
    /\ state' = "Closed"
    /\ q' = Released
    /\ errors' = Append(errors, failure)
    /\ failure' = "none"
    /\ epochOpen' = FALSE
    /\ cpc' = "idle"
    /\ UNCHANGED <<ctorVars, envVars, srcNext, srcHold, uHold, chunk, stOut,
                   stNext, emitted, taken, heap, chunkId, emittedIds, cbHold,
                   srcPc, uPc, stPc, cbPc, started,
                   closed, opLog,
                   epochLeft, epochGot, epochLog, delivered, deleted>>

\* the teardown is complete: the captured error is raised to the caller
Reraise ==
    /\ cpc = "raising"
    /\ AllDone
    /\ state' = "Closed"
    /\ q' = Released
    /\ errors' = Append(errors, failure)
    /\ failure' = "none"
    /\ epochOpen' = FALSE
    /\ cpc' = "idle"
    /\ UNCHANGED <<ctorVars, envVars, srcNext, srcHold, uHold, chunk, stOut,
                   stNext, emitted, taken, heap, chunkId, emittedIds, cbHold,
                   srcPc, uPc, stPc, cbPc, started,
                   closed, opLog,
                   epochLeft, epochGot, epochLog, delivered, deleted>>

Next ==
    \/ ConstructInfinite
    \/ Call \/ Enter \/ Close \/ Del \/ ExitJoin
    \/ PullBatch \/ PullExhausted \/ PullInactive \/ PullFailure \/ Reraise
    \/ SourceDraw \/ SourcePush
    \/ \E w \in UserWorkers : UserPull(w) \/ UserPush(w)
    \/ StackerPull \/ StackerPush
    \/ CombinerPull \/ CombinerPush

Spec == Init /\ [][Next]_vars


(* ------------- a long source and a consumer that may stop -------------- *)
\* the source never ends and has more items than the pipeline can hold; the
\* caller asks for epochs and pulls batches, or stops doing so at any point
StallItems == 4 * MaxItems
InitStall ==
    /\ cpu = MaxCpu
    /\ phase = "staged"
    /\ stageArgs = NoArgs
    /\ userStage = PlainCallable
    /\ nItems = StallItems
    /\ finite = FALSE /\ failItem = 0 /\ ragged = 0
    /\ AtRest
    /\ NoCombine

ConstructStall ==
    ConstructInfiniteOf({IntVal(1)}, 1..MaxEpoch, 1..(MaxBuffer + 1))

NextStall ==
    \/ ConstructStall
    \/ Call \/ PullBatch
    \/ SourceDraw \/ SourcePush
    \/ \E w \in UserWorkers : UserPull(w) \/ UserPush(w)
    \/ StackerPull \/ StackerPush
    \/ CombinerPull \/ CombinerPush

SpecStall == InitStall /\ [][NextStall]_vars

(* ------------------ a stage with a pool of workers --------------------- *)
\* the caller's stage is Threads or Loky with more than one worker
PoolStages ==
    {ThreadsInit(MaxWorkers, b).component : b \in 1..(MaxBuffer + 1)}
        \cup {LokyInit(0 - 1, 1, MaxCpu).component}
InitPool ==
    /\ cpu = MaxCpu
    /\ phase = "staged"
    /\ stageArgs = NoArgs
    /\ userStage \in PoolStages
    /\ nItems = MaxItems
    /\ finite \in BOOLEAN
    /\ failItem = 0 /\ ragged = 0
    /\ AtRest
    /\ NoCombine

ConstructPool ==
    ConstructInfiniteOf({IntVal(MaxBatch), Callable("never")}, {MaxEpoch},
                        1..MaxBuffer)

NextPool ==
    \/ ConstructPool
    \/ Call \/ PullBatch \/ PullExhausted
    \/ SourceDraw \/ SourcePush
    \/ \E w \in UserWorkers : UserPull(w) \/ UserPush(w)
    \/ StackerPull \/ StackerPush
    \/ CombinerPull \/ CombinerPush

SpecPool == InitPool /\ [][NextPool]_vars

(* ------------------------ the stacker on its own ----------------------- *)
\* the stacker generator over any input: its iterable hands it any values in
\* any order and ends at any point; the combiner worker takes the chunks it
\* yields and the caller pulls the batches
StackerItems == {SourceItemOf(i, 0) : i \in 1..MaxItems}
StackerBatchSizes ==
    {IntVal(n) : n \in 1..MaxBatch}
        \cup {Callable(f) : f \in Predicates \cup {"always"}}

InitStacker ==
    /\ cpu = MaxCpu
    /\ phase = "staged"
    /\ stageArgs = NoArgs
    /\ userStage = PlainCallable
    /\ nItems = MaxItems
    /\ finite = TRUE /\ failItem = 0 /\ ragged = 0
    /\ AtRest
    /\ NoCombine

ConstructStacker ==
    ConstructInfiniteOf(StackerBatchSizes, {MaxItems}, {DefaultBufferSize})

\* the iterable of the stacker produces its next value
Upstream ==
    /\ stPc = "pull"
    /\ ~closed[2]
    /\ HasRoom(2)
    /\ Len(taken) + Len(q[2]) < MaxItems
    /\ \E value \in StackerItems : q' = Put(2, value)
    /\ UNCHANGED <<ctorVars, state, envVars, srcVars, userVars, stVars, cbVars,
                   closed, failure, callerVars, started>>

\* the iterable of the stacker is exhausted
UpstreamEnds ==
    /\ stPc = "pull"
    /\ ~closed[2]
    /\ closed' = Signal(2)
    /\ UNCHANGED <<ctorVars, state, envVars, srcVars, userVars, stVars, cbVars,
                   q, failure, callerVars, started>>

NextStacker ==
    \/ ConstructStacker
    \/ Call
    \/ Upstream \/ UpstreamEnds
    \/ StackerPull \/ StackerPush
    \/ CombinerPull \/ CombinerPush
    \/ PullBatch

SpecStacker == InitStacker /\ [][NextStacker]_vars

(* ------------------ the single-threaded reference ---------------------- *)
\* the stacker generator run over a whole sequence at once; flush says
\* whether the input ends (the last chunk is yielded) or goes on for ever
RECURSIVE Stacked(_, _, _, _, _)
Stacked(p, items, current, out, flush) ==
    IF items = << >> THEN
        IF flush /\ current # << >> THEN Append(out, current) ELSE out
    ELSE LET value == Head(items) IN
        IF current = << >> \/ ShouldAdd(p, current, value)
        THEN Stacked(p, Tail(items), Append(current, value), out, flush)
        ELSE Stacked(p, Tail(items), <<value>>, Append(out, current), flush)

\* the source's items after the caller's transform, in source order
Transformed == [i \in 1..nItems |-> Func(SourceItem(i))]
\* transform, stack, combine, one after the other, over the finite source
ReferenceBatches ==
    LET chunks == Stacked(should_add, Transformed, << >>, << >>, TRUE)
    IN  [i \in 1..Len(chunks) |-> combine_to_arrays(chunks[i]).value]
\* the same over the first nItems items of a source that never ends
UninterruptedBatches ==
    LET chunks == Stacked(should_add, Transformed, << >>, << >>, FALSE)
    IN  [i \in 1..Len(chunks) |-> combine_to_arrays(chunks[i]).value]

IsPrefix(a, b) == Len(a) <= Len(b) /\ a = SubSeq(b, 1, Len(a))
Occurrences(seq, x) == Cardinality({i \in DOMAIN seq : seq[i] = x})
Ready == phase = "ready"
NoFault == failItem = 0 /\ ragged = 0
WorkerErrors == {"TransformError", "ShapeMismatch"}
Raised == {i \in DOMAIN errors : errors[i] \in WorkerErrors}

(* ============================ properties =============================== *)
\* C1: over a source that never ends (and a transform that never raises) an
\* epoch that runs to its end has yielded exactly batches_per_epoch batches,
\* no epoch yields more, and the batches of all epochs, one after the other,
\* are the beginning of the batch stream of one uninterrupted run.
C1_EpochsContinue ==
    (Ready /\ ~finite /\ NoFault) =>
        /\ epochGot <= batches_per_epoch
        /\ \A i \in DOMAIN epochLog :
                epochLog[i] = [got |-> batches_per_epoch, end |-> "count"]
        /\ IsPrefix(delivered, UninterruptedBatches)

C1_Witness ==
    /\ Ready /\ ~finite /\ NoFault
    /\ batches_per_epoch = 1
    /\ Len(epochLog) = 2
    /\ delivered = SubSeq(UninterruptedBatches, 1, 2)

\* C2: with an int batch_size k every chunk the stacker has yielded has
\* between 1 and k items, and every one but the final chunk (the one yielded
\* at the end of the input) has exactly k.
C2_FixedSizeChunks ==
    (Ready /\ args.batch_size.t = "int") =>
        LET k == args.batch_size.n IN
        \A i \in DOMAIN emitted :
            /\ Len(emitted[i]) \in 1..k
            /\ (i < Len(emitted) \/ stPc # "done") => Len(emitted[i]) = k

C2_Witness ==
    /\ Ready /\ args.batch_size = IntVal(2)
    /\ Len(emitted) = 2
    /\ Len(emitted[1]) = 2
    /\ Len(emitted[2]) = 1

\* C3: with a callable batch_size no chunk is ever yielded empty; with the
\* predicate that always answers false the i-th chunk is exactly the i-th
\* item, so the first item of a chunk is taken without asking.
C3_FirstItemAlwaysAccepted ==
    (Ready /\ args.batch_size.t = "callable") =>
        /\ \A i \in DOMAIN emitted : emitted[i] # << >>
        /\ \A i \in DOMAIN q[3] : q[3][i] # << >>
        /\ stPc \in {"yield", "flush"} => stOut # << >>
        /\ args.batch_size.f = "never" =>
                \A i \in DOMAIN emitted : emitted[i] = <<Transformed[i]>>

C3_Witness ==
    /\ Ready /\ args.batch_size = Callable("never")
    /\ Len(emitted) >= 2

AllSingleWorker == \A i \in DOMAIN pipeline : pipeline[i].n_workers = 1
EndSeen == \E i \in DOMAIN epochLog : epochLog[i].end = "exhausted"

C5_CloseIdempotent ==
    /\ [](state = "Closed" => NoWorkerAlive)
    /\ [][((Close \/ Del) /\ state # "Active") =>
            UNCHANGED <<state, started, srcPc, uPc, stPc, cbPc, q, closed,
                        errors, cpc, failure, delivered>>]_vars
    /\ [][(Close \/ Del \/ ExitJoin) =>
            (errors' = errors /\ started' = started)]_vars
    /\ [][ExitJoin => (state' = "Closed" /\ NoWorkerAlive')]_vars

C5_Witness ==
    /\ opLog = <<"call", "close", "close">>
    /\ state = "Closed"
    /\ cpc = "idle"
    /\ NoWorkerAlive
    /\ errors = << >>

\* C6: the error of a raising transform (the caller's, or the combiner on a
\* chunk of mixed arity) reaches the caller at most once; from the moment it
\* is captured no further batch is handed out; and when it has reached the
\* caller the pipeline is Closed, every worker has ended and the buffers are
\* released.
C6_FailureRaisedOnceAfterTeardown ==
    /\ [](Cardinality(Raised) <= 1)
    /\ []((Raised # {}) =>
            (~NoFault /\ state = "Closed" /\ NoWorkerAlive /\ q = Released))
    /\ [][failure # "none" => delivered' = delivered]_vars
    /\ [][(cpc = "raising" /\ cpc' # "raising") =>
            (errors' = Append(errors, failure) /\ failure \in WorkerErrors
             /\ state' = "Closed")]_vars

C6_Witness ==
    /\ Occurrences(errors, "TransformError") = 1
    /\ state = "Closed"
    /\ NoWorkerAlive

\* C7: the lifecycle only moves Idle -> Active -> Closed; from Closed no
\* step starts a worker, and a call or an enter there is answered at once
\* with a lifecycle error and opens no epoch; the workers are started at
\* most once.
C7_ClosedIsFinal ==
    /\ [](started <= 1)
    /\ [][state' # state =>
            <<state, state'>> \in {<<"None", "Idle">>, <<"Idle", "Active">>,
                                   <<"Active", "Closed">>}]_vars
    /\ [][state = "Closed" => (started' = started /\ NoWorkerAlive')]_vars
    /\ [][(state = "Closed" /\ (Call \/ Enter)) =>
            /\ errors' = Append(errors, "LifecycleError")
            /\ cpc' = "idle"
            /\ UNCHANGED <<epochOpen, epochLeft, epochGot>>]_vars

C7_Witness ==
    /\ opLog = <<"call", "close", "call">>
    /\ state = "Closed"
    /\ errors = <<"LifecycleError">>
    /\ started = 1

NothingBuilt ==
    /\ pipeline = << >> /\ state = "None"
    /\ started = 0 /\ NoWorkerAlive
    /\ q = Released

Constructed == args # NoInfiniteArgs
ValidBatchSize(b) == b.t = "callable" \/ (b.t = "int" /\ b.n > 0)

\* C8: Infinite(..., batches_per_epoch <= 0) raises at once: the error is the
\* batches_per_epoch ValueError, raised before the stacker is made, before
\* wrap_pipeline builds a Pipeline and with no worker or buffer in existence.
C8_NonPositiveEpochFailsFirst ==
    (Constructed /\ args.batches_per_epoch <= 0) =>
        /\ ctorErr = "ValueError: batches_per_epoch"
        /\ phase = "failed"
        /\ should_add = NoPredicate
        /\ batches_per_epoch = 0
        /\ NothingBuilt

C8_Witness ==
    /\ Constructed
    /\ args.batches_per_epoch = 0
    /\ ValidBatchSize(args.batch_size)
    /\ ctorErr = "ValueError: batches_per_epoch"

\* C9: a batch_size that is neither a positive int nor a callable always makes
\* the construction fail with nothing built; the batch_size errors are raised
\* for such a value only; with valid arguments the construction succeeds, and
\* a callable batch_size is the stacker's should_add itself.
C9_BatchSizeValidated ==
    Constructed =>
        LET b == args.batch_size IN
        /\ ~ValidBatchSize(b) => (ctorErr # "none" /\ phase = "failed" /\ NothingBuilt)
        /\ ctorErr \in {"ValueError: batch_size", "TypeError: batch_size"}
                => ~ValidBatchSize(b)
        /\ (ValidBatchSize(b) /\ args.batches_per_epoch > 0)
                => (ctorErr = "none" /\ pipeline # << >>)
        /\ (b.t = "callable" /\ ctorErr = "none") => should_add = b

C9_Witness ==
    /\ Constructed
    /\ args.batches_per_epoch > 0
    /\ args.batch_size = IntVal(0)
    /\ ctorErr = "ValueError: batch_size"
    /\ NothingBuilt

\* C10: a stage descriptor that Iterator, Threads or Loky hands out always has
\* n_workers >= 1 and buffer_size >= 1; a worker count of zero, a negative
\* one outside Loky's convention, or a buffer_size <= 0 makes the constructor
\* fail, leaving no descriptor and nothing started.
C10_StageSpecPositive ==
    (stageArgs # NoArgs) =>
        /\ stageErr = "none" =>
                (userStage.n_workers >= 1 /\ userStage.buffer_size >= 1)
        /\ ( \/ stageArgs.n_workers = 0
             \/ (stageArgs.n_workers < 0 /\ stageArgs.cls # "Loky")
             \/ stageArgs.buffer_size <= 0 )
                => (stageErr = "AssertionError" /\ userStage = NoComponent
                    /\ phase = "failed")
        /\ NothingBuilt

C10_Witness ==
    /\ stageArgs.cls = "Threads"
    /\ stageArgs.n_workers > 0
    /\ stageArgs.buffer_size <= 0
    /\ stageErr = "AssertionError"

LokyNegative == stageArgs.cls = "Loky" /\ stageArgs.n_workers < 0

\* C11: Loky with a negative n_workers always succeeds (given a positive
\* buffer_size) and stores max(1, cpu_count() + n_workers + 1), a count of at
\* least 1, computed from the cpu_count() of the moment of construction; the
\* stored descriptor never changes afterwards, whatever cpu_count() becomes.
C11_NegativeWorkersResolvedOnce ==
    /\ []((LokyNegative /\ stageArgs.buffer_size > 0) =>
            /\ stageErr = "none"
            /\ userStage.start = "start_loky"
            /\ userStage.n_workers >= 1
            /\ userStage.n_workers =
                    Max(1, stageArgs.cpus + stageArgs.n_workers + 1))
    /\ [][stageArgs # NoArgs =>
            (userStage' = userStage /\ stageArgs' = stageArgs)]_vars

C11_Witness ==
    /\ LokyNegative
    /\ stageArgs.n_workers = 0 - 1 /\ stageArgs.cpus = MaxCpu
    /\ cpu < MaxCpu
    /\ userStage.n_workers = MaxCpu
    /\ stageErr = "none"

\* C12 as stated: the count resolved for a negative n_workers is
\* cpu_count() - |n_workers| - 1, floored at 1.
C12_MinusAbsMinusOne ==
    (LokyNegative /\ stageErr = "none") =>
        userStage.n_workers =
            Max(1, stageArgs.cpus - Abs(stageArgs.n_workers) - 1)

\* C12, amended: the count resolved for a negative n_workers is
\* cpu_count() - |n_workers| + 1, floored at 1, so that -1 stands for every
\* CPU, and it never exceeds cpu_count().
C12_MinusAbsPlusOne ==
    (LokyNegative /\ stageErr = "none") =>
        /\ userStage.n_workers =
                Max(1, stageArgs.cpus - Abs(stageArgs.n_workers) + 1)
        /\ userStage.n_workers <= stageArgs.cpus
        /\ stageArgs.n_workers = 0 - 1 => userStage.n_workers = stageArgs.cpus

C12_Witness ==
    /\ LokyNegative /\ stageErr = "none"
    /\ stageArgs.n_workers = 0 - 1 /\ stageArgs.cpus = MaxCpu
    /\ userStage.n_workers = stageArgs.cpus - Abs(stageArgs.n_workers) + 1
    /\ userStage.n_workers # Max(1, stageArgs.cpus - Abs(stageArgs.n_workers) - 1)

\* C13: combine_batches on a chunk of tuples of one arity returns one
\* sequence per field, the k-th holding the k-th field of every item in the
\* chunk's order; combining the result again gives the chunk back;
\* [(1,'a'),(2,'b')] gives ((1,2),('a','b')).
C13_CombineBatchesTransposes ==
    (combiner = "combine_batches" /\ SameArity(inputs)) =>
        /\ result.err = "none"
        /\ inputs = << >> => result.value = << >>
        /\ inputs # << >> =>
            /\ Len(result.value) = Len(inputs[1])
            /\ \A k \in 1..Len(inputs[1]) :
                /\ Len(result.value[k]) = Len(inputs)
                /\ \A i \in 1..Len(inputs) : result.value[k][i] = inputs[i][k]
            /\ combine_batches(result.value) = Returned(inputs)
        /\ (fields = "scalars" /\ inputs = <<(<<"1", "a">>), (<<"2", "b">>)>>) =>
                result.value = <<(<<"1", "2">>), (<<"a", "b">>)>>

C13_Witness ==
    /\ combiner = "combine_batches" /\ fields = "scalars"
    /\ inputs = <<(<<"1", "a">>), (<<"2", "b">>)>>
    /\ result = Returned(<<(<<"1", "2">>), (<<"a", "b">>)>>)

\* C14: whichever combiner is called, a chunk with two items of different
\* arity makes it raise the length error of zip_equal and return nothing;
\* a combiner that returns has been given items of one arity and returns as
\* many fields as the items have.
C14_ArityMismatchRaises ==
    (combiner # "none") =>
        /\ ~SameArity(inputs) =>
                (result.err = "ValueError: lengths" /\ result.value = << >>)
        /\ result.err = "none" =>
                /\ SameArity(inputs)
                /\ inputs # << >> => Len(result.value) = Len(inputs[1])

C14_Witness ==
    /\ combiner = "combine_pad"
    /\ Len(inputs) = 2 /\ Len(inputs[1]) = 2 /\ Len(inputs[2]) = 1
    /\ result = Failed("ValueError: lengths")

\* C16: combine_pad returns, for every field, an array with one row per item,
\* every row as long as the longest value of that field in the chunk; a row
\* holds the item's value unchanged, preceded by floor(ratio * missing)
\* cells and followed by the rest of the missing cells, all of them the
\* field's own padding value; a value of length 3 beside one of length 5,
\* padded with 0 at ratio 0.5, becomes 0, value, 0.
C16_PadToLongest ==
    (combiner = "combine_pad" /\ result.err = "none") =>
        \A k \in DOMAIN result.value :
            LET field == result.value[k]
                own == IF Len(padding_values.vals) = 1 THEN padding_values.vals[1]
                       ELSE padding_values.vals[k]
            IN
            /\ field.shape[1] = Len(inputs)
            /\ \E i \in 1..Len(inputs) : field.shape[2] = Len(inputs[i][k])
            /\ \A i \in 1..Len(inputs) :
                LET x == inputs[i][k]
                    row == field.data[i]
                    missing == field.shape[2] - Len(x)
                    left == (missing * ratio) \div 2
                    pad == IF own.t = "fn" THEN SeqMin(x) ELSE own.n
                IN
                /\ missing >= 0
                /\ Len(row) = field.shape[2]
                /\ SubSeq(row, left + 1, left + Len(x)) = x
                /\ \A j \in 1..Len(row) :
                        (j <= left \/ j > left + Len(x)) => row[j] = pad
                /\ (Len(x) = 3 /\ missing = 2 /\ ratio = 1 /\ own = PadLit(0)) =>
                        row = <<0>> \o x \o <<0>>

C16_Witness ==
    /\ combiner = "combine_pad" /\ result.err = "none"
    /\ padding_values = PerField(<<PadLit(0), PadLit(0 - 1)>>) /\ ratio = 1
    /\ Len(inputs) = 2
    /\ Len(inputs[1][1]) = 3 /\ Len(inputs[2][1]) = 5
    /\ result.value[1].data[1] = <<0>> \o inputs[1][1] \o <<0>>
    /\ result.value[2].data[2] = <<0 - 1>> \o inputs[2][2] \o <<0 - 1>>

RECURSIVE Flatten(_)
Flatten(seqs) == IF seqs = << >> THEN << >> ELSE Head(seqs) \o Flatten(Tail(seqs))
\* the x of every item in a sequence of items, of chunks, of batches
Xs(items) == [i \in 1..Len(items) |-> items[i][1]]
ChunkXs(chunks) == Flatten([i \in 1..Len(chunks) |-> Xs(chunks[i])])
BatchXs(batches) == Flatten([i \in 1..Len(batches) |-> batches[i][1].data])
Held(pc, hold) == IF pc = "push" THEN <<hold>> ELSE << >>
\* the items inside a single-worker pipeline, oldest first
InPipeline ==
    BatchXs(q[NStages]) \o BatchXs(Held(cbPc, cbHold)) \o ChunkXs(q[3])
        \o (IF stPc = "done" THEN << >> ELSE Xs(chunk))
        \o (IF stNext = << >> THEN << >> ELSE Xs(<<stNext>>))
        \o Xs(q[2]) \o Xs(Held(uPc[1], uHold[1]))
        \o Xs(q[1]) \o Xs(Held(srcPc, srcHold))
\* what the stages and buffers of the pipeline can hold between them when
\* every chunk has k items
Holds(k) ==
    1 + Capacity(1) + 1 + Capacity(2) + (k + 1)
        + k * Capacity(3) + k + k * Capacity(NStages)

\* C15 as stated: every element of the facade's pipeline has the facade's
\* buffer_size as its buffer capacity and never holds more than that.
C15_BufferSizeEverywhere ==
    Ready =>
        \A i \in DOMAIN pipeline :
            /\ pipeline[i].buffer_size = args.buffer_size
            /\ Len(q[i]) <= args.buffer_size

\* C18: no buffer of an Active pipeline holds more than the capacity of the
\* stage that reads it (the facade's buffer_size before the wrapped callable,
\* the defaults of Iterator and Threads before the stacker and the
\* combiner); a worker pushes only into a buffer with room and until then
\* keeps its value: the items drawn from the source are, in order, the items
\* handed out followed by those inside the pipeline; so the source is never
\* more than the pipeline's holding capacity ahead of the consumer.
C18_BoundedBuffersBackpressure ==
    /\ [](state = "Active" =>
            /\ \A i \in 1..NStages : Len(q[i]) <= Capacity(i)
            /\ Len(q[1]) <= args.buffer_size
            /\ Len(q[2]) <= 1 /\ Len(q[3]) <= 1
            /\ BatchXs(delivered) \o InPipeline = [i \in 1..(srcNext - 1) |-> i]
            /\ (srcNext - 1) - Len(BatchXs(delivered)) <= Holds(args.batch_size.n))
    /\ [][(SourcePush \/ (\E w \in UserWorkers : UserPush(w)) \/ StackerPush
                \/ CombinerPush) =>
            \E i \in 1..NStages :
                /\ Len(q[i]) < Capacity(i)
                /\ Len(q'[i]) = Len(q[i]) + 1
                /\ SubSeq(q'[i], 1, Len(q[i])) = q[i]]_vars

\* every worker waits for room, the source among them with items left, and
\* the caller has pulled nothing
C18_Witness ==
    /\ state = "Active" /\ delivered = << >>
    /\ args.buffer_size = MaxBuffer + 1
    /\ srcPc = "push" /\ ~HasRoom(1) /\ Len(q[1]) = MaxBuffer + 1
    /\ uPc[1] = "push" /\ ~HasRoom(2)
    /\ stPc = "yield" /\ ~HasRoom(3)
    /\ cbPc = "push" /\ ~HasRoom(NStages)
    /\ srcNext <= nItems
    /\ srcNext - 1 = Holds(1)

\* C17: constructing the facade starts nothing; the first call enters the
\* Pipeline (Idle -> Active, the workers started once); a call on an Active
\* pipeline, whether a call or an explicit enter made it Active, starts no
\* worker, touches no worker, buffer or error and only opens the next epoch
\* on the same Pipeline; the facade's Pipeline is never replaced.
C17_LazySingleActivation ==
    /\ [](state = "Idle" => (started = 0 /\ NoWorkerAlive /\ q = Released))
    /\ [](state = "Active" => started = 1)
    /\ [][(Call /\ state = "Idle") =>
            (state' = "Active" /\ started' = 1 /\ ~NoWorkerAlive'
             /\ epochOpen' /\ epochLeft' = batches_per_epoch)]_vars
    /\ [][(Call /\ state = "Active") =>
            /\ UNCHANGED <<state, started, srcPc, uPc, stPc, cbPc, q, closed,
                           errors, pipeline>>
            /\ epochOpen' /\ epochLeft' = batches_per_epoch]_vars
    /\ [][pipeline # << >> => pipeline' = pipeline]_vars

C17_Witness ==
    /\ opLog = <<"enter", "call", "call">>
    /\ state = "Active" /\ started = 1
    /\ errors = << >>
    /\ Len(delivered) = 2

\* a step of some worker of the pipeline
WorkerStep ==
    \/ SourceDraw \/ SourcePush
    \/ \E w \in UserWorkers : UserPull(w) \/ UserPush(w)
    \/ StackerPull \/ StackerPush
    \/ CombinerPull \/ CombinerPush

RECURSIVE HeldBy(_)
HeldBy(w) ==
    IF w = 0 THEN << >>
    ELSE HeldBy(w - 1) \o (IF uPc[w] = "push" THEN <<uHold[w]>> ELSE << >>)
Produced ==
    HeldBy(MaxWorkers) \o q[2]
        \o (IF stPc = "done" THEN << >> ELSE chunk)
        \o (IF stNext = << >> THEN << >> ELSE <<stNext>>)
        \o Flatten(emitted)
\* the x of the items the pooled stage has pulled
Pulled == (1..(srcNext - 1)) \ ({q[1][i][1] : i \in 1..Len(q[1])}
            \cup {srcHold[1] : j \in {1} \cap DOMAIN srcHold})
PoolDone == \A w \in UserWorkers : uPc[w] \in {"off", "done"}

\* C20: a Threads or Loky stage with N > 1 workers: at every moment the
\* values the stage has produced are, as a multiset, func applied to the items
\* it has pulled, one value per item; a pull takes the head of the shared
\* input buffer for one worker only; when the workers have ended over a
\* source that ended, every item of the source has been through func once.
C20_PoolProcessesEachItemOnce ==
    /\ []((state = "Active" /\ NUserWorkers > 1) =>
            /\ Len(Produced) = Cardinality(Pulled)
            /\ {Produced[i] : i \in 1..Len(Produced)}
                    = {Func(SourceItem(i)) : i \in Pulled}
            /\ (finite /\ PoolDone) => Pulled = 1..nItems)
    /\ [][\A w \in UserWorkers :
            (uPc[w] = "pull" /\ uPc'[w] = "push") =>
                /\ q[1] # << >> /\ q'[1] = Tail(q[1])
                /\ uHold'[w] = Func(Head(q[1]))
                /\ \A v \in UserWorkers \ {w} :
                        uHold'[v] = uHold[v] /\ uPc'[v] = uPc[v]]_vars

\* both workers have pulled, and the second item overtook the first
C20_Witness ==
    /\ state = "Active" /\ NUserWorkers > 1
    /\ finite /\ PoolDone /\ stPc = "done"
    /\ Len(Produced) = nItems
    /\ Produced[1] = Func(SourceItem(2))
    /\ Produced[2] = Func(SourceItem(1))

Yielding == IF stPc \in {"yield", "flush"} THEN stOut ELSE << >>
Filling ==
    IF stPc = "pull" THEN chunk
    ELSE IF stPc = "yield" THEN <<stNext>>
    ELSE << >>
NonEmpty(c) == c # << >>
StackerChunks == emitted \o SelectSeq(<<Yielding, Filling>>, NonEmpty)

\* C22: the chunks the stacker emits, one after the other, are the input
\* stream item for item: the emitted chunks followed by the chunk in the
\* making are always what was received; an item joins a chunk only when
\* should_add accepts it and an item should_add rejects is the first of the
\* next chunk; no emitted chunk is empty; and when the input is exhausted the
\* emitted chunks are the whole input, so that an empty input emits nothing.
C22_StackerPreservesStream ==
    stPc # "off" =>
        /\ Flatten(StackerChunks) = taken
        /\ \A i \in DOMAIN StackerChunks :
                /\ StackerChunks[i] # << >>
                /\ \A j \in 2..Len(StackerChunks[i]) :
                        ShouldAdd(should_add, SubSeq(StackerChunks[i], 1, j - 1),
                                  StackerChunks[i][j])
                /\ i > 1 => ~ShouldAdd(should_add, StackerChunks[i - 1],
                                       StackerChunks[i][1])
        /\ stPc = "done" =>
                /\ Flatten(emitted) = taken
                /\ taken = << >> => emitted = << >>

\* a stream of MaxItems items whose second item is accepted and whose last is
\* rejected: the rejected item went out alone in the final chunk
C22_Witness ==
    /\ stPc = "done"
    /\ should_add = Callable("even")
    /\ Len(taken) = MaxItems
    /\ Len(emitted) = 2
    /\ emitted[2] = <<taken[MaxItems]>>
    /\ Flatten(emitted) = taken

\* the list objects of the chunks that wait in the buffer after the stacker:
\* the buffer is first in first out, so they are the last ones yielded
BufferedIds == SubSeq(emittedIds, Len(emittedIds) - Len(q[3]) + 1, Len(emittedIds))

\* C23: a chunk the stacker has emitted is never modified afterwards: every
\* list it has yielded holds the items it held when it was yielded, the
\* chunks waiting in the buffer among them, and after a yield the stacker
\* fills a list that is none of the yielded ones.
C23_EmittedChunkNeverModified ==
    /\ Len(emittedIds) = Len(emitted)
    /\ \A i \in DOMAIN emitted : heap[emittedIds[i]] = emitted[i]
    /\ Len(q[3]) <= Len(emittedIds)
    /\ \A k \in DOMAIN q[3] : heap[BufferedIds[k]] = q[3][k]
    /\ stPc = "pull" => \A i \in DOMAIN emittedIds : emittedIds[i] # chunkId

\* a chunk waits in the buffer while the stacker has appended an item that
\* arrived after the yield to the list it is filling
C23_Witness ==
    /\ stPc = "pull"
    /\ q[3] # << >>
    /\ q[3][Len(q[3])] = emitted[Len(emitted)]
    /\ Len(chunk) >= 2
    /\ heap[chunkId] = chunk

====
